---- MODULE Spec2Model ----
(***************************************************************************)
(* Model of the grid hedging engine of src/main.py (class Trader).         *)
(*                                                                         *)
(* Prices are integers in tenths of a quote unit (500000 = 50000.0),       *)
(* quantities are integers in tenths of a contract (3 = 0.3), and the six  *)
(* percentage offsets are per-mille integers (4 = 0.4/100).  The feed and  *)
(* gateway prices are drawn from sets on which every product              *)
(* offset * price is a whole number of tenths, so the integer arithmetic   *)
(* below is the exact arithmetic of the source's expressions.              *)
(***************************************************************************)
EXTENDS Integers, Sequences, FiniteSets, TLC

VARIABLES
    trader,        \* the Trader object's fields (self.*)
    venue,         \* the exchange account: positionAmt per positionSide, position mode
    calls,         \* the client.* calls made by the last handler, in order
    outcome,       \* which branch the last handler took and how it ended
    phase,         \* "init" (constructed), "streaming" (socket started), "terminated"
    failures,      \* number of handlers in which a client.* call has raised so far
    initial_side,  \* the side argument given to Trader.__init__
    message        \* the msg argument of the last call of stream_price

vars == <<trader, venue, calls, outcome, phase, failures, initial_side, message>>

----------------------------------------------------------------------------
(* Bounds of the model *)

\* gateway reference prices are PriceStep * 1 .. PriceStep * MaxRefK
MaxRefK == 2

\* a hedge is explored while |last_units| * 2 <= int_units * 2^MaxDoublings
MaxDoublings == 2

\* at most this many client.* calls raise in one run
MaxFailures == 1

\* the positions close_all_positions is tried on alone are 0 .. MaxPosition
\* tenths of a contract on each side
MaxPosition == 6

\* start_trading makes at most five client.* calls: leverage, get mode, set
\* mode, order, ticker
MaxCalls == 5

----------------------------------------------------------------------------
(* Units and program constants *)

\* offsets are fractions with this denominator: 4 stands for 0.4/100
PctDen == 1000

\* 25000.0 in tenths; every offset * price product below is then exact
PriceStep == 250000

\* src/main.py:422-427, the offsets passed by __main__ (and the defaults of __init__)
DefaultOffsets ==
    [long_entry_add |-> 4, short_entry_deduct |-> 4,
     long_tp_add |-> 8, long_sl_deduct |-> 12,
     short_tp_deduct |-> 8, short_sl_add |-> 12]

\* src/main.py:429, initial_units = 0.3
InitialUnits == 3

\* the offsets the configuration specification draws from
OffsetValues == {4, 8, 12}

Sides == {"LONG", "SHORT"}

RefPrices == {PriceStep * k : k \in 1..MaxRefK}

Abs(x) == IF x < 0 THEN -x ELSE x

Sign(x) == IF x > 0 THEN 1 ELSE IF x < 0 THEN -1 ELSE 0

RECURSIVE Pow2(_)
Pow2(n) == IF n = 0 THEN 1 ELSE 2 * Pow2(n - 1)

\* offset * price, e.g. self.short_entry_deduct * self.long_entry
Pct(offset, price) == (offset * price) \div PctDen

----------------------------------------------------------------------------
(* Trader.__init__ *)

NewTrader(units, sd, offs) ==
    [base_units |-> units,
     int_units |-> units,
     side |-> sd,
     close |-> 0,
     long_entry_add |-> offs.long_entry_add,
     short_entry_deduct |-> offs.short_entry_deduct,
     long_tp_add |-> offs.long_tp_add,
     long_sl_deduct |-> offs.long_sl_deduct,
     short_tp_deduct |-> offs.short_tp_deduct,
     short_sl_add |-> offs.short_sl_add,
     long_entry |-> 0,
     short_entry |-> 0,
     long_tp |-> 0,
     long_sl |-> 0,
     short_tp |-> 0,
     short_sl |-> 0,
     last_units |-> 0,
     last_direction |-> "NONE"]

----------------------------------------------------------------------------
(* The exchange client.  A handler runs against a gateway record g:        *)
(*   g.venue   the account as the calls made so far have left it           *)
(*   g.calls   the calls made so far                                       *)
(*   g.failAt  the indices of the calls that raise                         *)
(*   g.ref     the price futures_symbol_ticker returns                     *)
(*   g.err     TRUE when the last call raised                              *)

NoCall == [op |-> "-", side |-> "-", positionSide |-> "-", quantity |-> 0, price |-> 0, ok |-> TRUE]

Gateway(v, failAt, ref) ==
    [venue |-> v, calls |-> <<>>, failAt |-> failAt, ref |-> ref, err |-> FALSE]

CallOk(g) == (Len(g.calls) + 1) \notin g.failAt

\* an accepted market order fills in full: BUY raises positionAmt of the
\* order's positionSide by the quantity, SELL lowers it
Fill(v, sd, qty, ps) ==
    [v EXCEPT ![ps] = IF sd = "BUY" THEN @ + qty ELSE @ - qty]

futures_create_order(g, sd, qty, ps) ==
    LET ok == CallOk(g) IN
    [g EXCEPT !.calls = Append(@, [NoCall EXCEPT !.op = "order", !.side = sd,
                                       !.positionSide = ps, !.quantity = qty, !.ok = ok]),
              !.venue = IF ok THEN Fill(@, sd, qty, ps) ELSE @,
              !.err = ~ok]

futures_symbol_ticker(g) ==
    LET ok == CallOk(g) IN
    [g EXCEPT !.calls = Append(@, [NoCall EXCEPT !.op = "ticker",
                                       !.price = IF ok THEN g.ref ELSE 0, !.ok = ok]),
              !.err = ~ok]

futures_position_information(g) ==
    LET ok == CallOk(g) IN
    [g EXCEPT !.calls = Append(@, [NoCall EXCEPT !.op = "positions", !.ok = ok]),
              !.err = ~ok]

\* the list the position query returns: one entry per positionSide
Positions(v) ==
    <<[positionSide |-> "LONG", positionAmt |-> v.LONG],
      [positionSide |-> "SHORT", positionAmt |-> v.SHORT]>>

futures_change_leverage(g) ==
    LET ok == CallOk(g) IN
    [g EXCEPT !.calls = Append(@, [NoCall EXCEPT !.op = "leverage", !.ok = ok]),
              !.err = ~ok]

futures_get_position_mode(g) ==
    LET ok == CallOk(g) IN
    [g EXCEPT !.calls = Append(@, [NoCall EXCEPT !.op = "get_mode", !.ok = ok]),
              !.err = ~ok]

futures_change_position_mode(g) ==
    LET ok == CallOk(g) IN
    [g EXCEPT !.calls = Append(@, [NoCall EXCEPT !.op = "set_mode", !.ok = ok]),
              !.venue = IF ok THEN [@ EXCEPT !.dualSidePosition = TRUE] ELSE @,
              !.err = ~ok]

----------------------------------------------------------------------------
(* The level arithmetic of first_trade and hedging_loop *)

\* slip: the next SHORT entry placed above the LONG entry
NextShortEntry_added(t, long_entry) == long_entry + Pct(t.short_entry_deduct, long_entry)

\* self.short_entry = self.long_entry - self.short_entry_deduct * self.long_entry
NextShortEntry(t, long_entry) == long_entry - Pct(t.short_entry_deduct, long_entry)

\* slip: the long entry offset deducted instead of added
NextLongEntry_deducted(t, short_entry) == short_entry - Pct(t.long_entry_add, short_entry)

\* self.long_entry = self.short_entry + self.long_entry_add * self.short_entry
NextLongEntry(t, short_entry) == short_entry + Pct(t.long_entry_add, short_entry)

\* slip: the take-profit offset deducted instead of added
LongTp_deducted(t, long_entry) == long_entry - Pct(t.long_tp_add, long_entry)

LongTp(t, long_entry) == long_entry + Pct(t.long_tp_add, long_entry)

\* slip: the stop-loss offset added instead of deducted
LongSl_added(t, long_entry) == long_entry + Pct(t.long_sl_deduct, long_entry)

LongSl(t, long_entry) == long_entry - Pct(t.long_sl_deduct, long_entry)

ShortTp(t, short_entry) == short_entry - Pct(t.short_tp_deduct, short_entry)

ShortSl(t, short_entry) == short_entry + Pct(t.short_sl_add, short_entry)

\* slip: the hedge order not doubled
hedge_quantity_single(last_units) == Abs(last_units)

\* quantity = abs(self.last_units*2)
hedge_quantity(last_units) == Abs(last_units * 2)

\* slip: the sign of the exposure not flipped
hedge_units_keep_sign(last_units) == last_units * 2

\* self.last_units = self.last_units*2 * -1
hedge_units(last_units) == last_units * 2 * (-1)

\* the assignments of first_trade after a LONG order, price the ticker's price
long_first_levels(t, price) ==
    LET long_entry == price
        short_entry == NextShortEntry(t, long_entry)
    IN  [t EXCEPT
           !.long_entry = long_entry,
           !.short_entry = short_entry,
           !.long_tp = LongTp(t, long_entry),
           !.long_sl = LongSl(t, long_entry),
           !.short_tp = ShortTp(t, short_entry),
           !.short_sl = ShortSl(t, short_entry),
           !.last_units = t.int_units,
           !.last_direction = "LONG"]

\* the assignments of first_trade after a SHORT order
short_first_levels(t, price) ==
    LET short_entry == price
        long_entry == NextLongEntry(t, short_entry)
    IN  [t EXCEPT
           !.short_entry = short_entry,
           !.long_entry = long_entry,
           !.short_tp = ShortTp(t, short_entry),
           !.short_sl = ShortSl(t, short_entry),
           !.long_tp = LongTp(t, long_entry),
           !.long_sl = LongSl(t, long_entry),
           !.last_units = t.int_units * (-1),
           !.last_direction = "SHORT"]

\* slip: the hedge recomputes both sides' levels, as first_trade does
short_hedge_levels_all(t, price) ==
    LET short_entry == price
        long_entry == NextLongEntry(t, short_entry)
    IN  [t EXCEPT
           !.short_entry = short_entry,
           !.long_entry = long_entry,
           !.short_tp = ShortTp(t, short_entry),
           !.short_sl = ShortSl(t, short_entry),
           !.long_tp = LongTp(t, long_entry),
           !.long_sl = LongSl(t, long_entry),
           !.last_units = hedge_units(t.last_units),
           !.last_direction = "SHORT"]

\* the assignments of hedging_loop after a hedge into SHORT
short_hedge_levels(t, price) ==
    LET short_entry == price IN
    [t EXCEPT
       !.short_entry = short_entry,
       !.short_tp = ShortTp(t, short_entry),
       !.short_sl = ShortSl(t, short_entry),
       !.last_units = hedge_units(t.last_units),
       !.last_direction = "SHORT"]

\* slip: the hedge moves long_entry and leaves long_tp where it was
long_hedge_levels_stale_tp(t, price) ==
    LET long_entry == price IN
    [t EXCEPT
       !.long_entry = long_entry,
       !.long_sl = LongSl(t, long_entry),
       !.last_units = hedge_units(t.last_units),
       !.last_direction = "LONG"]

\* the assignments of hedging_loop after a hedge into LONG
long_hedge_levels(t, price) ==
    LET long_entry == price IN
    [t EXCEPT
       !.long_entry = long_entry,
       !.long_tp = LongTp(t, long_entry),
       !.long_sl = LongSl(t, long_entry),
       !.last_units = hedge_units(t.last_units),
       !.last_direction = "LONG"]

----------------------------------------------------------------------------
(* What each except clause does with the exception it has printed *)

\* slip: first_trade only prints the exception
first_trade_swallows == FALSE

\* first_trade: raise
first_trade_reraises == TRUE

\* close_all_positions: raise
close_all_reraises == TRUE

\* hedging_loop: "Don't raise here to prevent WebSocket from crashing"
hedging_loop_reraises == FALSE

\* stream_price: "Don't raise here to prevent WebSocket from crashing"
stream_price_reraises == FALSE

----------------------------------------------------------------------------
(* Trader.first_trade: the result is the trader and gateway it leaves and  *)
(* whether an exception left it.                                           *)

Result(t, g, raised) == [t |-> t, g |-> g, raised |-> raised]

first_trade_long(t, g) ==
    LET g1 == futures_create_order(g, "BUY", t.int_units, "LONG") IN
    IF g1.err THEN Result(t, g1, first_trade_reraises)
    ELSE
      LET g2 == futures_symbol_ticker(g1) IN
      IF g2.err THEN Result(t, g2, first_trade_reraises)
      ELSE Result(long_first_levels(t, g2.ref), g2, FALSE)

first_trade_short(t, g) ==
    LET g1 == futures_create_order(g, "SELL", t.int_units, "SHORT") IN
    IF g1.err THEN Result(t, g1, first_trade_reraises)
    ELSE
      LET g2 == futures_symbol_ticker(g1) IN
      IF g2.err THEN Result(t, g2, first_trade_reraises)
      ELSE Result(short_first_levels(t, g2.ref), g2, FALSE)

first_trade(t, g) ==
    IF t.side = "LONG" THEN first_trade_long(t, g)
    ELSE IF t.side = "SHORT" THEN first_trade_short(t, g)
    ELSE Result(t, g, FALSE)

----------------------------------------------------------------------------
(* Trader.close_all_positions: the gateway it leaves and whether an        *)
(* exception left it.                                                      *)

\* slip: a side without a position is closed too, by an order of quantity 0
RECURSIVE close_each_flat_too(_, _, _)
close_each_flat_too(positions, i, g) ==
    IF i > Len(positions) THEN g
    ELSE
      LET type == positions[i].positionSide
          amt == positions[i].positionAmt
          qty == Abs(amt)
      IN  IF type = "LONG" /\ amt >= 0 THEN
            LET g1 == futures_create_order(g, "SELL", qty, "LONG") IN
            IF g1.err THEN g1 ELSE close_each_flat_too(positions, i + 1, g1)
          ELSE IF type = "SHORT" /\ amt <= 0 THEN
            LET g1 == futures_create_order(g, "BUY", qty, "SHORT") IN
            IF g1.err THEN g1 ELSE close_each_flat_too(positions, i + 1, g1)
          ELSE close_each_flat_too(positions, i + 1, g)

RECURSIVE close_each(_, _, _)
close_each(positions, i, g) ==
    IF i > Len(positions) THEN g
    ELSE
      LET type == positions[i].positionSide
          amt == positions[i].positionAmt
          qty == Abs(amt)
      IN  IF amt = 0 THEN close_each(positions, i + 1, g)
          ELSE IF type = "LONG" /\ amt > 0 THEN
            LET g1 == futures_create_order(g, "SELL", qty, "LONG") IN
            IF g1.err THEN g1 ELSE close_each(positions, i + 1, g1)
          ELSE IF type = "SHORT" /\ amt < 0 THEN
            LET g1 == futures_create_order(g, "BUY", qty, "SHORT") IN
            IF g1.err THEN g1 ELSE close_each(positions, i + 1, g1)
          ELSE close_each(positions, i + 1, g)

\* slip: only the first reported position is closed
close_all_positions_first_only(g) ==
    LET g1 == futures_position_information(g)
        g2 == IF g1.err THEN g1 ELSE close_each(SubSeq(Positions(g1.venue), 1, 1), 1, g1)
    IN  [g |-> g2, raised |-> g2.err /\ close_all_reraises]

close_all_positions(g) ==
    LET g1 == futures_position_information(g)
        g2 == IF g1.err THEN g1 ELSE close_each(Positions(g1.venue), 1, g1)
    IN  [g |-> g2, raised |-> g2.err /\ close_all_reraises]

----------------------------------------------------------------------------
(* Trader.hedging_loop.  branch names the branch of the if/elif tree that  *)
(* ran, stage the place an exception came from ("ok": none), raised        *)
(* whether an exception left hedging_loop.                                 *)

Loop(t, g, branch, stage) ==
    [t |-> t, g |-> g, branch |-> branch, stage |-> stage,
     raised |-> stage # "ok" /\ hedging_loop_reraises]

hedge_into_short(t, g) ==
    LET g1 == futures_create_order(g, "SELL", hedge_quantity(t.last_units), "SHORT") IN
    IF g1.err THEN Loop(t, g1, "hedge_short", "hedge")
    ELSE
      LET g2 == futures_symbol_ticker(g1) IN
      IF g2.err THEN Loop(t, g2, "hedge_short", "hedge")
      ELSE Loop(short_hedge_levels(t, g2.ref), g2, "hedge_short", "ok")

hedge_into_long(t, g) ==
    LET g1 == futures_create_order(g, "BUY", hedge_quantity(t.last_units), "LONG") IN
    IF g1.err THEN Loop(t, g1, "hedge_long", "hedge")
    ELSE
      LET g2 == futures_symbol_ticker(g1) IN
      IF g2.err THEN Loop(t, g2, "hedge_long", "hedge")
      ELSE Loop(long_hedge_levels(t, g2.ref), g2, "hedge_long", "ok")

\* self.side = "LONG" of the long take-profit branch
RestartSideAfterLongTp == "LONG"

\* slip: the short take-profit branch restarts LONG
RestartSideAlwaysLong == "LONG"

\* self.side = "SHORT" of the short take-profit branch
RestartSideAfterShortTp == "SHORT"

\* slip: the new first entry placed before the old positions are closed
take_profit_entry_first(t, g, restartSide, branch) ==
    LET t1 == [t EXCEPT !.last_units = 0, !.last_direction = "NONE", !.side = restartSide]
        r == first_trade(t1, g)
    IN  IF r.raised THEN Loop(r.t, r.g, branch, "first_trade")
        ELSE LET c == close_all_positions(r.g) IN
             Loop(r.t, c.g, branch, IF c.raised THEN "close_all" ELSE "ok")

\* slip: the exposure reset before close_all_positions is called
take_profit_reset_first(t, g, restartSide, branch) ==
    LET t1 == [t EXCEPT !.last_units = 0, !.last_direction = "NONE", !.side = restartSide]
        c == close_all_positions(g)
    IN  IF c.raised THEN Loop(t1, c.g, branch, "close_all")
        ELSE LET r == first_trade(t1, c.g) IN
             Loop(r.t, r.g, branch, IF r.raised THEN "first_trade" ELSE "ok")

\* a take-profit branch: close everything, reset, restart on restartSide
take_profit(t, g, restartSide, branch) ==
    LET c == close_all_positions(g) IN
    IF c.raised THEN Loop(t, c.g, branch, "close_all")
    ELSE
      LET t1 == [t EXCEPT !.last_units = 0, !.last_direction = "NONE", !.side = restartSide]
          r == first_trade(t1, c.g)
      IN  Loop(r.t, r.g, branch, IF r.raised THEN "first_trade" ELSE "ok")

\* slip: the take-profit condition tested before the hedge condition
hedging_loop_tp_first(t, g) ==
    IF t.last_direction = "LONG" THEN
      IF t.last_units > 0 THEN
        IF t.close >= t.long_tp THEN take_profit(t, g, RestartSideAfterLongTp, "tp_long")
        ELSE IF t.close <= t.short_entry THEN hedge_into_short(t, g)
        ELSE Loop(t, g, "none", "ok")
      ELSE Loop(t, g, "none", "ok")
    ELSE IF t.last_direction = "SHORT" THEN
      IF t.last_units < 0 THEN
        IF t.close <= t.short_tp THEN take_profit(t, g, RestartSideAfterShortTp, "tp_short")
        ELSE IF t.close >= t.long_entry THEN hedge_into_long(t, g)
        ELSE Loop(t, g, "none", "ok")
      ELSE Loop(t, g, "none", "ok")
    ELSE Loop(t, g, "none", "ok")

\* slip: a tick with no direction retries the first entry
hedging_loop_retries(t, g) ==
    IF t.last_direction = "LONG" THEN
      IF t.last_units > 0 THEN
        IF t.close <= t.short_entry THEN hedge_into_short(t, g)
        ELSE IF t.close >= t.long_tp THEN take_profit(t, g, RestartSideAfterLongTp, "tp_long")
        ELSE Loop(t, g, "none", "ok")
      ELSE Loop(t, g, "none", "ok")
    ELSE IF t.last_direction = "SHORT" THEN
      IF t.last_units < 0 THEN
        IF t.close >= t.long_entry THEN hedge_into_long(t, g)
        ELSE IF t.close <= t.short_tp THEN take_profit(t, g, RestartSideAfterShortTp, "tp_short")
        ELSE Loop(t, g, "none", "ok")
      ELSE Loop(t, g, "none", "ok")
    ELSE LET r == first_trade(t, g) IN
         Loop(r.t, r.g, "none", IF r.raised THEN "first_trade" ELSE "ok")

\* slip: a price at or beyond the stop-loss level of the open side closes
\* all positions and restarts
hedging_loop_stop_loss(t, g) ==
    IF t.last_direction = "LONG" THEN
      IF t.last_units > 0 THEN
        IF t.close <= t.short_entry THEN hedge_into_short(t, g)
        ELSE IF t.close >= t.long_tp THEN take_profit(t, g, RestartSideAfterLongTp, "tp_long")
        ELSE IF t.close <= t.long_sl THEN take_profit(t, g, RestartSideAfterLongTp, "tp_long")
        ELSE Loop(t, g, "none", "ok")
      ELSE Loop(t, g, "none", "ok")
    ELSE IF t.last_direction = "SHORT" THEN
      IF t.last_units < 0 THEN
        IF t.close >= t.long_entry THEN hedge_into_long(t, g)
        ELSE IF t.close <= t.short_tp THEN take_profit(t, g, RestartSideAfterShortTp, "tp_short")
        ELSE IF t.close >= t.short_sl THEN take_profit(t, g, RestartSideAfterShortTp, "tp_short")
        ELSE Loop(t, g, "none", "ok")
      ELSE Loop(t, g, "none", "ok")
    ELSE Loop(t, g, "none", "ok")

hedging_loop(t, g) ==
    IF t.last_direction = "LONG" THEN
      IF t.last_units > 0 THEN
        IF t.close <= t.short_entry THEN hedge_into_short(t, g)
        ELSE IF t.close >= t.long_tp THEN take_profit(t, g, RestartSideAfterLongTp, "tp_long")
        ELSE Loop(t, g, "none", "ok")
      ELSE Loop(t, g, "none", "ok")
    ELSE IF t.last_direction = "SHORT" THEN
      IF t.last_units < 0 THEN
        IF t.close >= t.long_entry THEN hedge_into_long(t, g)
        ELSE IF t.close <= t.short_tp THEN take_profit(t, g, RestartSideAfterShortTp, "tp_short")
        ELSE Loop(t, g, "none", "ok")
      ELSE Loop(t, g, "none", "ok")
    ELSE Loop(t, g, "none", "ok")

\* slip: a message without a closing price still runs the hedging logic
stream_price_evaluates_anyway(t, g, msg) ==
    LET r == hedging_loop(IF msg.wellformed THEN [t EXCEPT !.close = msg.c] ELSE t, g) IN
    [r EXCEPT !.raised = r.raised /\ stream_price_reraises]

----------------------------------------------------------------------------
(* Trader.stream_price: the websocket callback.  A message either carries  *)
(* a closing price msg.c or lacks the field, in which case the lookup      *)
(* raises before self.close is assigned.  raised tells whether an          *)
(* exception left the callback.                                            *)

stream_price(t, g, msg) ==
    IF ~msg.wellformed
    THEN [Loop(t, g, "dropped", "parse") EXCEPT !.raised = stream_price_reraises]
    ELSE LET r == hedging_loop([t EXCEPT !.close = msg.c], g) IN
         [r EXCEPT !.raised = r.raised /\ stream_price_reraises]

----------------------------------------------------------------------------
(* Trader.start_trading up to the start of the socket.  raised = TRUE      *)
(* means an exception left start_trading, which ends the process.          *)

set_position_mode(g) ==
    LET g1 == futures_get_position_mode(g) IN
    IF g1.err THEN g1
    ELSE IF ~g1.venue.dualSidePosition THEN futures_change_position_mode(g1)
    ELSE g1

start_trading(t, g) ==
    LET g1 == futures_change_leverage(g) IN
    IF g1.err THEN Result(t, g1, TRUE)
    ELSE
      \* the try/except around the position mode only prints the exception
      LET g2 == [set_position_mode(g1) EXCEPT !.err = FALSE] IN
      first_trade(t, g2)

----------------------------------------------------------------------------
(* The state machine *)

FlatVenue(dual) == [LONG |-> 0, SHORT |-> 0, dualSidePosition |-> dual]

Outcome(op, branch, stage, raised) ==
    [op |-> op, branch |-> branch, stage |-> stage, raised |-> raised]

\* the indices of the calls that raised
Failed(cs) == {i \in 1..Len(cs) : ~cs[i].ok}

\* failAt names exactly the calls that were made and raised, within the budget
Feasible(failAt, cs) ==
    /\ failAt = Failed(cs)
    /\ failures + Cardinality(failAt) <= MaxFailures

\* the reference price is a choice only when the ticker is asked and answers
RefUsed(cs, ref) ==
    \/ \E i \in 1..Len(cs) : cs[i].op = "ticker" /\ cs[i].ok
    \/ ref = PriceStep

\* no message has been delivered yet
NoMessage == [wellformed |-> FALSE, c |-> 0]

InitWith(offsets) ==
    /\ initial_side \in Sides
    /\ message = NoMessage
    /\ trader = NewTrader(InitialUnits, initial_side, offsets)
    /\ venue \in {FlatVenue(dual) : dual \in BOOLEAN}
    /\ calls = <<>>
    /\ outcome = Outcome("init", "none", "ok", FALSE)
    /\ phase = "init"
    /\ failures = 0

Init == InitWith(DefaultOffsets)

\* every configuration of the six offsets over OffsetValues
Configurations ==
    [long_entry_add : OffsetValues, short_entry_deduct : OffsetValues,
     long_tp_add : OffsetValues, long_sl_deduct : OffsetValues,
     short_tp_deduct : OffsetValues, short_sl_add : OffsetValues]

InitConfig == \E offsets \in Configurations : InitWith(offsets)

\* trader.start_trading() of __main__: an exception leaving it ends the process
StartTrading ==
    /\ phase = "init"
    /\ \E failAt \in SUBSET (1..MaxCalls), ref \in RefPrices :
         \E r \in {start_trading(trader, Gateway(venue, failAt, ref))} :
         /\ Feasible(failAt, r.g.calls)
         /\ RefUsed(r.g.calls, ref)
         /\ trader' = r.t
         /\ venue' = r.g.venue
         /\ calls' = r.g.calls
         /\ outcome' = Outcome("start_trading", "start",
                               IF ~r.raised THEN "ok"
                               ELSE IF Len(r.g.calls) = 1 THEN "leverage" ELSE "first_trade",
                               r.raised)
         /\ phase' = IF r.raised THEN "terminated" ELSE "streaming"
         /\ failures' = failures + Cardinality(failAt)
    /\ UNCHANGED <<initial_side, message>>

\* the prices the feed delivers: for the hedge threshold and the take-profit
\* threshold that hedging_loop compares under the trader's direction, the
\* price that just meets it and the nearest price that does not, and that
\* side's stop-loss level; with no direction, one price per side
TickPrices(t) ==
    {p \in (IF t.last_direction = "LONG"
             THEN {t.short_entry, t.short_entry + 1, t.long_tp - 1, t.long_tp, t.long_sl}
             ELSE IF t.last_direction = "SHORT"
             THEN {t.long_entry - 1, t.long_entry, t.short_tp, t.short_tp + 1, t.short_sl}
             ELSE {t.short_entry, t.long_entry, t.long_tp, t.short_tp}) : p > 0}

Messages(t) ==
    {[wellformed |-> TRUE, c |-> p] : p \in TickPrices(t)}
      \cup {[wellformed |-> FALSE, c |-> 0]}

WithinDoublings(t) == Abs(t.last_units) * 2 <= t.int_units * Pow2(MaxDoublings)

\* hedging_loop stops at the first call that raises: at most one call fails,
\* and it is one of the calls the handler makes when none fails
FirstFailures(n) == {{}} \cup {{i} : i \in 1..n}

\* one message of the kline socket, handled by the callback stream_price
StreamPrice ==
    /\ phase = "streaming"
    /\ \E msg \in Messages(trader), ref \in RefPrices :
         LET n == Len(stream_price(trader, Gateway(venue, {}, ref), msg).g.calls) IN
         \E failAt \in FirstFailures(n) :
           \E r \in {stream_price(trader, Gateway(venue, failAt, ref), msg)} :
           /\ Feasible(failAt, r.g.calls)
           /\ RefUsed(r.g.calls, ref)
           /\ r.branch \in {"hedge_short", "hedge_long"} => WithinDoublings(trader)
           /\ trader' = r.t
           /\ venue' = r.g.venue
           /\ calls' = r.g.calls
           /\ outcome' = Outcome("stream_price", r.branch, r.stage, r.raised)
           /\ phase' = IF r.raised THEN "terminated" ELSE "streaming"
           /\ failures' = failures + Cardinality(failAt)
           /\ message' = msg
    /\ UNCHANGED initial_side

Next == StartTrading \/ StreamPrice

Spec == Init /\ [][Next]_vars

\* the first entry under every configuration
NextConfig == StartTrading

SpecConfig == InitConfig /\ [][NextConfig]_vars

\* close_all_positions on its own, called again and again on an account that
\* holds any positions: a LONG amount of 0 .. MaxPosition and a SHORT amount
\* of -MaxPosition .. 0
InitClose ==
    /\ initial_side = "LONG"
    /\ message = NoMessage
    /\ trader = NewTrader(InitialUnits, initial_side, DefaultOffsets)
    /\ venue \in {[LONG |-> l, SHORT |-> -sh, dualSidePosition |-> TRUE] :
                    l \in 0..MaxPosition, sh \in 0..MaxPosition}
    /\ calls = <<>>
    /\ outcome = Outcome("init", "none", "ok", FALSE)
    /\ phase = "closing"
    /\ failures = 0

\* one call of close_all_positions; branch tells whether it directly follows
\* a call that returned normally
CloseAll ==
    /\ phase = "closing"
    /\ \E failAt \in FirstFailures(3) :
         \E r \in {close_all_positions(Gateway(venue, failAt, PriceStep))} :
         /\ Feasible(failAt, r.g.calls)
         /\ venue' = r.g.venue
         /\ calls' = r.g.calls
         /\ outcome' = Outcome("close_all_positions",
                               IF outcome.op = "close_all_positions" /\ outcome.stage = "ok"
                               THEN "again" ELSE "first",
                               IF r.raised THEN "close_all" ELSE "ok",
                               r.raised)
         /\ failures' = failures + Cardinality(failAt)
    /\ UNCHANGED <<trader, phase, initial_side, message>>

NextClose == CloseAll

SpecClose == InitClose /\ [][NextClose]_vars

----------------------------------------------------------------------------
(* Vocabulary of the properties *)

SideSign(direction) ==
    IF direction = "LONG" THEN 1 ELSE IF direction = "SHORT" THEN -1 ELSE 0

Opposite(direction) == IF direction = "LONG" THEN "SHORT" ELSE "LONG"

LevelsOf(t) ==
    <<t.long_entry, t.short_entry, t.long_tp, t.long_sl, t.short_tp, t.short_sl>>

Hedges == {"hedge_short", "hedge_long"}

TakeProfits == {"tp_long", "tp_short"}

\* the last handler was a tick that completed a hedge entry
HedgeDone(o) == o.op = "stream_price" /\ o.branch \in Hedges /\ o.stage = "ok"

\* the last handler was a tick that completed a take-profit restart
TpDone(o) == o.op = "stream_price" /\ o.branch \in TakeProfits /\ o.stage = "ok"

LastCall(cs) == cs[Len(cs)]

IsOrder(c, sd, ps) == c.op = "order" /\ c.side = sd /\ c.positionSide = ps

\* an order that opens exposure / an order that closes exposure
IsEntryOrder(c) == IsOrder(c, "BUY", "LONG") \/ IsOrder(c, "SELL", "SHORT")

IsCloseOrder(c) == IsOrder(c, "SELL", "LONG") \/ IsOrder(c, "BUY", "SHORT")

Approx(x, y) == Abs(x - y) <= 1

\* the engine state Scenario A ends in
ScenarioAState(t) ==
    /\ t.last_direction = "LONG" /\ t.last_units = 3
    /\ t.long_entry = 500000 /\ t.short_entry = 498000
    /\ t.long_tp = 504000 /\ t.long_sl = 494000

----------------------------------------------------------------------------
\* C1: in every state the sign of last_units matches last_direction:
\* positive when LONG, negative when SHORT, zero when None.
C1_SignMatchesSide ==
    Sign(trader.last_units) = SideSign(trader.last_direction)

C1_Witness ==
    /\ HedgeDone(outcome)
    /\ trader.last_direction = "SHORT"
    /\ trader.last_units < 0

----------------------------------------------------------------------------
\* C2: a hedge entry places an order of twice the exposure's magnitude on the
\* opposite side and doubles the magnitude of last_units; a completed
\* take-profit restart leaves |last_units| = base_units.
C2_DoublingLaw ==
    [][ /\ HedgeDone(outcome') =>
             /\ calls'[1].op = "order"
             /\ calls'[1].quantity = 2 * Abs(trader.last_units)
             /\ calls'[1].positionSide = Opposite(trader.last_direction)
             /\ calls'[1].side = (IF trader.last_direction = "LONG" THEN "SELL" ELSE "BUY")
             /\ Abs(trader'.last_units) = 2 * Abs(trader.last_units)
        /\ TpDone(outcome') => Abs(trader'.last_units) = trader.base_units
      ]_vars

\* a restart that closed both a LONG and a SHORT position: hedges preceded it
C2_Witness ==
    /\ TpDone(outcome)
    /\ Len(calls) = 5
    /\ Abs(trader.last_units) = trader.base_units

----------------------------------------------------------------------------
\* C3: after a successful first entry the long levels are ordered
\* long_sl < long_entry < long_tp, the short levels short_tp < short_entry <
\* short_sl, and last_units is +base_units with direction LONG after a LONG
\* entry, -base_units with direction SHORT after a SHORT entry.
C3_FirstEntryLevels ==
    (outcome.op = "start_trading" /\ ~outcome.raised) =>
        /\ trader.long_sl < trader.long_entry /\ trader.long_entry < trader.long_tp
        /\ trader.short_tp < trader.short_entry /\ trader.short_entry < trader.short_sl
        /\ trader.side = "LONG" =>
             trader.last_units = trader.base_units /\ trader.last_direction = "LONG"
        /\ trader.side = "SHORT" =>
             trader.last_units = -trader.base_units /\ trader.last_direction = "SHORT"

C3_Witness ==
    /\ outcome.op = "start_trading" /\ ~outcome.raised
    /\ trader.side = "SHORT"
    /\ trader.long_entry_add = 12 /\ trader.short_sl_add = 4
    /\ trader.last_units = -trader.base_units

----------------------------------------------------------------------------
\* Scenario A: default offsets, base_units 0.3, initial side LONG, and the
\* ticker answers 50000 to the first entry
ScenarioA ==
    /\ outcome.op = "start_trading" /\ ~outcome.raised
    /\ initial_side = "LONG"
    /\ trader.base_units = 3
    /\ LastCall(calls).op = "ticker" /\ LastCall(calls).price = 500000

\* C4 as stated: Scenario A ends with long_entry 50000, short_entry 49800,
\* long_tp 50400, long_sl 49400, short_tp about 49404.4, short_sl about
\* 50397.6 and last_units 0.3.
C4_ScenarioA_Stated ==
    ScenarioA =>
        /\ trader.long_entry = 500000 /\ trader.short_entry = 498000
        /\ trader.long_tp = 504000 /\ trader.long_sl = 494000
        /\ Approx(trader.short_tp, 494044) /\ Approx(trader.short_sl, 503976)
        /\ trader.last_units = 3

\* C4 amended: the same with short_tp about 49401.6 (49800 less 0.8%).
C4_ScenarioA ==
    ScenarioA =>
        /\ trader.long_entry = 500000 /\ trader.short_entry = 498000
        /\ trader.long_tp = 504000 /\ trader.long_sl = 494000
        /\ Approx(trader.short_tp, 494016) /\ Approx(trader.short_sl, 503976)
        /\ trader.last_units = 3

C4_Witness == ScenarioA /\ trader.short_tp = 494016

----------------------------------------------------------------------------
\* C5: a hedge into SHORT sets short_entry to the ticker's price, recomputes
\* short_tp and short_sl from it and leaves long_entry, long_tp and long_sl
\* alone; a hedge into LONG does the same with the sides exchanged; and from
\* the state of Scenario A a tick of 49800 whose calls all succeed sells 0.6
\* SHORT and leaves last_units -0.6, direction SHORT and the long levels of A.
C5_HedgeFrame ==
    [][ /\ (HedgeDone(outcome') /\ outcome'.branch = "hedge_short") =>
             LET p == LastCall(calls').price IN
             /\ trader'.short_entry = p
             /\ trader'.short_tp = p - (trader.short_tp_deduct * p) \div PctDen
             /\ trader'.short_sl = p + (trader.short_sl_add * p) \div PctDen
             /\ trader'.long_entry = trader.long_entry
             /\ trader'.long_tp = trader.long_tp
             /\ trader'.long_sl = trader.long_sl
        /\ (HedgeDone(outcome') /\ outcome'.branch = "hedge_long") =>
             LET p == LastCall(calls').price IN
             /\ trader'.long_entry = p
             /\ trader'.long_tp = p + (trader.long_tp_add * p) \div PctDen
             /\ trader'.long_sl = p - (trader.long_sl_deduct * p) \div PctDen
             /\ trader'.short_entry = trader.short_entry
             /\ trader'.short_tp = trader.short_tp
             /\ trader'.short_sl = trader.short_sl
        /\ (/\ ScenarioAState(trader)
            /\ outcome'.op = "stream_price" /\ outcome'.branch # "dropped"
            /\ trader'.close = 498000
            /\ Failed(calls') = {}) =>
             /\ Len(calls') = 2
             /\ IsOrder(calls'[1], "SELL", "SHORT") /\ calls'[1].quantity = 6
             /\ trader'.last_units = -6 /\ trader'.last_direction = "SHORT"
             /\ trader'.long_entry = 500000
             /\ trader'.long_tp = 504000 /\ trader'.long_sl = 494000
      ]_vars

\* Scenario B, with a ticker price that differs from the old short_entry
C5_Witness ==
    /\ HedgeDone(outcome) /\ outcome.branch = "hedge_short"
    /\ trader.close = 498000
    /\ trader.last_units = -6
    /\ trader.long_entry = 500000 /\ trader.long_tp = 504000
    /\ trader.short_entry = 250000

----------------------------------------------------------------------------
\* a take-profit restart's calls: the position query, then only closing
\* orders, then the first-entry order sd/ps of quantity qty, then the ticker
ClosesBeforeEntry(cs, sd, ps, qty) ==
    /\ Len(cs) >= 3
    /\ cs[1].op = "positions"
    /\ \A i \in 2..(Len(cs) - 2) : IsCloseOrder(cs[i])
    /\ IsOrder(cs[Len(cs) - 1], sd, ps) /\ cs[Len(cs) - 1].quantity = qty
    /\ cs[Len(cs)].op = "ticker"

\* C6: a tick at or beyond the active side's take-profit level that does not
\* meet the hedge condition, and whose calls all succeed, issues every closing
\* order before the first-entry order and ends with the direction that took
\* profit and last_units = +base_units (LONG) or -base_units (SHORT).
C6_TakeProfitRestart ==
    [][ (outcome'.op = "stream_price" /\ outcome'.branch # "dropped"
           /\ Failed(calls') = {}) =>
          /\ (/\ trader.last_direction = "LONG" /\ trader.last_units > 0
              /\ trader'.close >= trader.long_tp
              /\ ~(trader'.close <= trader.short_entry)) =>
                /\ ClosesBeforeEntry(calls', "BUY", "LONG", trader.base_units)
                /\ trader'.last_direction = "LONG"
                /\ trader'.last_units = trader.base_units
          /\ (/\ trader.last_direction = "SHORT" /\ trader.last_units < 0
              /\ trader'.close <= trader.short_tp
              /\ ~(trader'.close >= trader.long_entry)) =>
                /\ ClosesBeforeEntry(calls', "SELL", "SHORT", trader.base_units)
                /\ trader'.last_direction = "SHORT"
                /\ trader'.last_units = -trader.base_units
      ]_vars

\* Scenario C: the tick 50400 right after Scenario A closes the one LONG
\* position and re-enters LONG 0.3
C6_Witness ==
    /\ TpDone(outcome) /\ outcome.branch = "tp_long"
    /\ trader.close = 504000
    /\ Len(calls) = 4 /\ IsOrder(calls[2], "SELL", "LONG") /\ calls[2].quantity = 3
    /\ trader.last_units = 3 /\ trader.last_direction = "LONG"

----------------------------------------------------------------------------
\* the first-entry order among a restart's calls
EntryOrderOf(cs) == IF LastCall(cs).op = "order" THEN LastCall(cs) ELSE cs[Len(cs) - 1]

\* the last handler was a tick that reached the first_trade of a restart
RestartReached(o) ==
    o.op = "stream_price" /\ o.branch \in TakeProfits /\ o.stage \in {"ok", "first_trade"}

\* C7 as stated: every completed take-profit restart re-opens the first
\* entry on the side given at construction.
C7_RestartOnInitialSide_Stated ==
    TpDone(outcome) => trader.last_direction = initial_side

\* C7 amended: every take-profit restart places its first-entry order on the
\* side that just took profit (the direction before the tick), sets side to
\* it, and when it completes leaves that side as the direction.
C7_RestartOnProfitSide ==
    [][ RestartReached(outcome') =>
          /\ trader'.side = trader.last_direction
          /\ IsEntryOrder(EntryOrderOf(calls'))
          /\ EntryOrderOf(calls').positionSide = trader.last_direction
          /\ outcome'.stage = "ok" => trader'.last_direction = trader.last_direction
      ]_vars

\* a restart on SHORT in a run constructed with side LONG
C7_Witness ==
    /\ TpDone(outcome) /\ outcome.branch = "tp_short"
    /\ initial_side = "LONG"
    /\ trader.last_direction = "SHORT" /\ trader.side = "SHORT"

----------------------------------------------------------------------------
\* the last handler ran first_trade and its order was refused
EntryOrderFailed(cs, o) ==
    /\ o.branch \in {"start"} \cup TakeProfits
    /\ Len(cs) >= 1
    /\ IsEntryOrder(LastCall(cs)) /\ ~LastCall(cs).ok

\* C8: when the order of first_trade fails, first_trade raises to its caller
\* (start_trading then ends the process), the direction is None, last_units
\* is 0 and the six levels keep their values.
C8_EntryOrderFailure ==
    [][ EntryOrderFailed(calls', outcome') =>
          /\ outcome'.stage = "first_trade"
          /\ outcome'.op = "start_trading" => (outcome'.raised /\ phase' = "terminated")
          /\ trader'.last_direction = "NONE"
          /\ trader'.last_units = 0
          /\ LevelsOf(trader') = LevelsOf(trader)
      ]_vars

\* the order of a restart's first_trade refused, the old levels still set
C8_Witness ==
    /\ EntryOrderFailed(calls, outcome)
    /\ outcome.branch = "tp_long"
    /\ trader.last_direction = "NONE" /\ trader.last_units = 0
    /\ trader.long_entry > 0

----------------------------------------------------------------------------
\* the last handler was a tick in which a call of the hedge entry, the
\* position query or a closing order raised
HedgeOrCloseFailed(cs, o) ==
    /\ o.op = "stream_price"
    /\ Failed(cs) # {}
    /\ \/ o.branch \in Hedges
       \/ o.branch \in TakeProfits
            /\ (LastCall(cs).op = "positions" \/ IsCloseOrder(LastCall(cs)))

\* C9: when a call of the hedge entry or of close_all_positions raises in a
\* tick, no exception leaves the callback, and the direction, last_units and
\* the six levels are those of before the tick.
C9_FailedTickKeepsState ==
    [][ HedgeOrCloseFailed(calls', outcome') =>
          /\ ~outcome'.raised /\ phase' = "streaming"
          /\ trader'.last_direction = trader.last_direction
          /\ trader'.last_units = trader.last_units
          /\ LevelsOf(trader') = LevelsOf(trader)
      ]_vars

\* a closing order refused during a take-profit
C9_Witness ==
    /\ HedgeOrCloseFailed(calls, outcome)
    /\ outcome.branch = "tp_long"
    /\ IsCloseOrder(LastCall(calls))
    /\ trader.last_direction = "LONG" /\ trader.last_units > 0

----------------------------------------------------------------------------
\* C10: after every tick last_units is positive exactly when the venue's net
\* position is long, negative exactly when it is short, zero exactly when it
\* is flat.
C10_ExposureMatchesVenue ==
    outcome.op = "stream_price" =>
        Sign(trader.last_units) = Sign(venue.LONG + venue.SHORT)

----------------------------------------------------------------------------
\* the closing orders close_all_positions owes for the account v, in the
\* order of the reported positions, as <<side, positionSide, quantity>>
ExpectedCloses(v) ==
    (IF v.LONG # 0 THEN << <<"SELL", "LONG", Abs(v.LONG)>> >> ELSE <<>>)
      \o (IF v.SHORT # 0 THEN << <<"BUY", "SHORT", Abs(v.SHORT)>> >> ELSE <<>>)

CloseCalls(cs) == SelectSeq(cs, IsCloseOrder)

ShapeOf(c) == <<c.side, c.positionSide, c.quantity>>

\* C11: a tick that runs close_all_positions issues, for the positions the
\* venue holds (not for last_units), one closing order per side with a
\* nonzero amount, SELL for LONG and BUY for SHORT, of exactly that amount, in
\* the order reported and stopping at a refused one; the only other order of
\* the tick is the first-entry order that follows them; and a failed position
\* query issues nothing.
C11_ClosesReportedPositions ==
    [][ (outcome'.op = "stream_price" /\ Len(calls') >= 1 /\ calls'[1].op = "positions") =>
          LET issued == CloseCalls(calls')
              owed == ExpectedCloses(venue)
          IN  /\ ~calls'[1].ok => Len(calls') = 1
              /\ calls'[1].ok =>
                   /\ Len(issued) <= Len(owed)
                   /\ \A i \in 1..Len(issued) : ShapeOf(issued[i]) = owed[i]
                   /\ (\A i \in 1..Len(issued) : issued[i].ok) => Len(issued) = Len(owed)
                   /\ \A i \in 1..Len(calls') :
                        (calls'[i].op = "order" /\ ~IsCloseOrder(calls'[i])) =>
                            i = Len(owed) + 2
      ]_vars

\* the venue held LONG 0.3 and SHORT 0.6 while last_units was +0.3 (a hedge
\* order accepted, its ticker call failed): both positions are closed
C11_Witness ==
    /\ TpDone(outcome) /\ outcome.branch = "tp_long"
    /\ failures = 1
    /\ Len(calls) = 5
    /\ ShapeOf(calls[2]) = <<"SELL", "LONG", 3>>
    /\ ShapeOf(calls[3]) = <<"BUY", "SHORT", 6>>

----------------------------------------------------------------------------
NoOrders(cs) == \A i \in 1..Len(cs) : cs[i].op # "order"

\* C12: close_all_positions called on an account whose reported amounts are
\* all zero issues no order, and so does a call that directly follows a call
\* of close_all_positions that returned normally.
C12_CloseAllIdempotent ==
    [][ outcome'.op = "close_all_positions" =>
          /\ (venue.LONG = 0 /\ venue.SHORT = 0) => NoOrders(calls')
          /\ (outcome.op = "close_all_positions" /\ outcome.stage = "ok") => NoOrders(calls')
      ]_vars

\* a second call right after a call that returned normally
C12_Witness ==
    /\ outcome.op = "close_all_positions" /\ outcome.branch = "again"
    /\ outcome.stage = "ok"
    /\ Len(calls) = 1 /\ calls[1].op = "positions"
    /\ venue.LONG = 0 /\ venue.SHORT = 0

----------------------------------------------------------------------------
\* C13: when futures_change_leverage, futures_get_position_mode or
\* futures_change_position_mode raises in start_trading, the process ends and
\* no order has been sent.
C13_StartupFailureFatal ==
    (/\ outcome.op = "start_trading"
     /\ \E i \in 1..Len(calls) :
          calls[i].op \in {"leverage", "get_mode", "set_mode"} /\ ~calls[i].ok) =>
        phase = "terminated" /\ NoOrders(calls)

----------------------------------------------------------------------------
EntryOrders(cs) == {i \in 1..Len(cs) : IsEntryOrder(cs[i])}

\* the trader t with the price p stored and nothing else changed
OnlyClose(t, p) == [t EXCEPT !.close = p]

\* C15: a tick with a closing price p makes at most one transition.  With
\* direction LONG: p <= short_entry sends the hedge order and nothing else
\* but its ticker call, whatever long_tp is; otherwise p >= long_tp runs the
\* take-profit restart; otherwise nothing is called and only close changes.
\* With direction SHORT the same with p >= long_entry and p <= short_tp.  No
\* tick sends more than one opening order, and a completed hedge is followed
\* by no further call in the tick.
C15_OneTransitionPerTick ==
    [][ (outcome'.op = "stream_price" /\ message'.wellformed) =>
          LET p == message'.c
              hedged == /\ Len(calls') >= 1 /\ Len(calls') <= 2
                        /\ calls'[1].op = "order"
                        /\ calls'[1].quantity = 2 * Abs(trader.last_units)
                        /\ \A i \in 1..Len(calls') : calls'[i].op # "positions"
                        /\ outcome'.stage = "ok" =>
                             trader'.last_units = -2 * trader.last_units
              restarted == /\ Len(calls') >= 1 /\ calls'[1].op = "positions"
                           /\ outcome'.stage = "ok" =>
                                trader'.last_units = Sign(trader.last_units) * trader.base_units
              idle == calls' = <<>> /\ trader' = OnlyClose(trader, p)
          IN  /\ Cardinality(EntryOrders(calls')) <= 1
              /\ (trader.last_direction = "LONG" /\ trader.last_units > 0) =>
                   /\ p <= trader.short_entry =>
                        hedged /\ IsOrder(calls'[1], "SELL", "SHORT")
                   /\ (p > trader.short_entry /\ p >= trader.long_tp) => restarted
                   /\ (p > trader.short_entry /\ p < trader.long_tp) => idle
              /\ (trader.last_direction = "SHORT" /\ trader.last_units < 0) =>
                   /\ p >= trader.long_entry =>
                        hedged /\ IsOrder(calls'[1], "BUY", "LONG")
                   /\ (p < trader.long_entry /\ p <= trader.short_tp) => restarted
                   /\ (p < trader.long_entry /\ p > trader.short_tp) => idle
      ]_vars

\* a tick that met the hedge condition and the take-profit condition of LONG
\* at once (long_tp is not changed by the hedge): the hedge was made
C15_Witness ==
    /\ HedgeDone(outcome) /\ outcome.branch = "hedge_short"
    /\ message.wellformed /\ message.c >= trader.long_tp
    /\ Len(calls) = 2

----------------------------------------------------------------------------
\* the active side was opened by first_trade and not hedged since
FirstEntryState(t) ==
    t.last_direction \in Sides /\ t.last_units = SideSign(t.last_direction) * t.base_units

\* C16 as stated: in every state the hedge level and the take-profit level
\* of the active side are on opposite sides: LONG has short_entry < long_tp,
\* SHORT has short_tp < long_entry.
C16_ThresholdsOpposite_Stated ==
    /\ trader.last_direction = "LONG" => trader.short_entry < trader.long_tp
    /\ trader.last_direction = "SHORT" => trader.short_tp < trader.long_entry

\* C16 amended: the hedge level and the take-profit level of the active side
\* are on opposite sides in every state whose active side was opened by a
\* first entry and not hedged since, and there no price meets the hedge
\* condition and the take-profit condition together.
C16_ThresholdsOppositeAfterFirstEntry ==
    FirstEntryState(trader) =>
      /\ trader.last_direction = "LONG" =>
           /\ trader.short_entry < trader.long_tp
           /\ \A p \in TickPrices(trader) :
                ~(p <= trader.short_entry /\ p >= trader.long_tp)
      /\ trader.last_direction = "SHORT" =>
           /\ trader.short_tp < trader.long_entry
           /\ \A p \in TickPrices(trader) :
                ~(p >= trader.long_entry /\ p <= trader.short_tp)

\* a first entry made by a take-profit restart that followed a hedge
C16_Witness ==
    /\ TpDone(outcome) /\ FirstEntryState(trader)
    /\ trader.last_direction # initial_side

----------------------------------------------------------------------------
\* C17: with direction LONG, long_tp > long_entry > long_sl; with direction
\* SHORT, short_sl > short_entry > short_tp; in every state, those reached
\* through a hedge at a new reference price included.
C17_LevelOrdering ==
    /\ trader.last_direction = "LONG" =>
         trader.long_tp > trader.long_entry /\ trader.long_entry > trader.long_sl
    /\ trader.last_direction = "SHORT" =>
         trader.short_sl > trader.short_entry /\ trader.short_entry > trader.short_tp

\* a hedge into LONG at a reference price above the take-profit level the
\* long side had before
C17_Witness ==
    /\ HedgeDone(outcome) /\ outcome.branch = "hedge_long"
    /\ trader.last_direction = "LONG"
    /\ trader.long_entry > trader.short_entry + 2 * Pct(trader.long_tp_add, trader.short_entry)

----------------------------------------------------------------------------
\* C18 as stated: in every state with an active side the other side's entry
\* level is computed from the active side's entry price: LONG has
\* short_entry = long_entry - short_entry_deduct * long_entry, SHORT has
\* long_entry = short_entry + long_entry_add * short_entry.
C18_OtherEntryFromActiveFill_Stated ==
    /\ trader.last_direction = "LONG" =>
         trader.short_entry * PctDen =
           trader.long_entry * PctDen - trader.short_entry_deduct * trader.long_entry
    /\ trader.last_direction = "SHORT" =>
         trader.long_entry * PctDen =
           trader.short_entry * PctDen + trader.long_entry_add * trader.short_entry

\* C18 amended: after a first entry the other side's entry level is computed
\* from the price of that entry; a hedge sets the entry price of the side it
\* opens to the reference price and leaves the other side's entry level as
\* it was, which is the price at which that other side was last opened.
C18_OtherEntryAfterFirstEntryOnly ==
    [][ outcome'.op \in {"start_trading", "stream_price"} =>
          /\ (FirstEntryState(trader') /\ trader'.last_direction = "LONG") =>
               trader'.short_entry * PctDen =
                 trader'.long_entry * PctDen
                   - trader'.short_entry_deduct * trader'.long_entry
          /\ (FirstEntryState(trader') /\ trader'.last_direction = "SHORT") =>
               trader'.long_entry * PctDen =
                 trader'.short_entry * PctDen
                   + trader'.long_entry_add * trader'.short_entry
          /\ (HedgeDone(outcome') /\ outcome'.branch = "hedge_long") =>
               /\ trader'.long_entry = LastCall(calls').price
               /\ trader'.short_entry = trader.short_entry
          /\ (HedgeDone(outcome') /\ outcome'.branch = "hedge_short") =>
               /\ trader'.short_entry = LastCall(calls').price
               /\ trader'.long_entry = trader.long_entry
      ]_vars

\* a hedge into LONG after a short first entry made by a take-profit
\* restart: short_entry is still the price of that short entry
C18_Witness ==
    /\ HedgeDone(outcome) /\ outcome.branch = "hedge_long"
    /\ trader.last_units = 2 * trader.base_units
    /\ initial_side = "LONG"
    /\ trader.short_entry # NextShortEntry(trader, trader.long_entry)

----------------------------------------------------------------------------
\* C19: a tick received while the direction is NONE calls nothing on the
\* client and changes nothing but close (nothing at all when the message has
\* no closing price); the direction stays NONE and last_units stays 0, so a
\* first entry that failed inside a take-profit restart is never retried.
C19_NoneTickIsNoOp ==
    [][ (trader.last_direction = "NONE" /\ outcome'.op = "stream_price") =>
          /\ calls' = <<>>
          /\ venue' = venue
          /\ trader' = IF message'.wellformed THEN OnlyClose(trader, message'.c) ELSE trader
          /\ trader'.last_direction = "NONE" /\ trader'.last_units = 0
          /\ phase' = "streaming"
      ]_vars

\* a tick at the long entry level received after the first entry of a
\* take-profit restart failed
C19_Witness ==
    /\ outcome.op = "stream_price" /\ outcome.branch = "none"
    /\ trader.last_direction = "NONE" /\ trader.last_units = 0
    /\ failures = 1 /\ phase = "streaming"
    /\ message.wellformed /\ message.c = trader.long_entry

----------------------------------------------------------------------------
PositionQueries(cs) == {i \in 1..Len(cs) : cs[i].op = "positions"}

\* C20: a message without a closing price leaves the trader (close included)
\* and the account as they were, calls nothing on the client, and no
\* exception leaves stream_price; a message with a closing price stores that
\* price and runs the hedging logic once: at most one opening order and at
\* most one position query.
C20_MalformedMessageDropped ==
    [][ outcome'.op = "stream_price" =>
          /\ ~message'.wellformed =>
               /\ trader' = trader
               /\ calls' = <<>>
               /\ venue' = venue
               /\ outcome'.branch = "dropped"
               /\ ~outcome'.raised /\ phase' = "streaming"
          /\ message'.wellformed =>
               /\ trader'.close = message'.c
               /\ outcome'.branch # "dropped"
               /\ Cardinality(EntryOrders(calls')) <= 1
               /\ Cardinality(PositionQueries(calls')) <= 1
               /\ ~outcome'.raised /\ phase' = "streaming"
      ]_vars

\* a message without a closing price received while the stored price is at
\* or below the hedge level of a LONG position (the hedge of the previous
\* tick failed)
C20_Witness ==
    /\ outcome.op = "stream_price" /\ outcome.branch = "dropped"
    /\ ~message.wellformed
    /\ trader.last_direction = "LONG" /\ trader.last_units > 0
    /\ trader.close <= trader.short_entry

----------------------------------------------------------------------------
HoldsLong(t) == t.last_direction = "LONG" /\ t.last_units > 0

HoldsShort(t) == t.last_direction = "SHORT" /\ t.last_units < 0

\* the price p is at or beyond the stop-loss level of the open side
BeyondStopLoss(t, p) ==
    \/ HoldsLong(t) /\ p <= t.long_sl
    \/ HoldsShort(t) /\ p >= t.short_sl

HedgeCondition(t, p) ==
    \/ HoldsLong(t) /\ p <= t.short_entry
    \/ HoldsShort(t) /\ p >= t.long_entry

TakeProfitCondition(t, p) ==
    /\ ~HedgeCondition(t, p)
    /\ \/ HoldsLong(t) /\ p >= t.long_tp
       \/ HoldsShort(t) /\ p <= t.short_tp

\* C21: long_sl and short_sl are never read by a tick.  A price at or beyond
\* the stop-loss level of the open side that meets neither the hedge
\* condition nor the take-profit condition calls nothing and changes only
\* close, the stop-loss levels included.  On every tick, closing orders are
\* sent only under the take-profit condition, after the position query; the
\* only other orders are the hedge order of twice the exposure, sent first
\* under the hedge condition, and the first entry of a take-profit restart.
C21_StopLossNeverActs ==
    [][ (outcome'.op = "stream_price" /\ message'.wellformed) =>
          LET p == message'.c IN
          /\ (/\ BeyondStopLoss(trader, p)
              /\ ~HedgeCondition(trader, p)
              /\ ~TakeProfitCondition(trader, p)) =>
               /\ calls' = <<>>
               /\ venue' = venue
               /\ trader' = OnlyClose(trader, p)
          /\ \A i \in 1..Len(calls') :
               /\ IsCloseOrder(calls'[i]) =>
                    TakeProfitCondition(trader, p) /\ i > 1 /\ calls'[1].op = "positions"
               /\ IsEntryOrder(calls'[i]) =>
                    \/ /\ HedgeCondition(trader, p) /\ i = 1
                       /\ calls'[i].quantity = 2 * Abs(trader.last_units)
                    \/ /\ TakeProfitCondition(trader, p) /\ i > 1
                       /\ calls'[1].op = "positions"
                       /\ calls'[i].quantity = trader.int_units
          /\ (calls' # <<>>) => HedgeCondition(trader, p) \/ TakeProfitCondition(trader, p)
      ]_vars

\* a tick at the stop-loss level of an open, hedged LONG position that lies
\* above the short entry level: nothing was called and the positions stay
C21_Witness ==
    /\ outcome.op = "stream_price" /\ outcome.branch = "none"
    /\ message.wellformed /\ message.c = trader.close
    /\ HoldsLong(trader)
    /\ trader.close <= trader.long_sl
    /\ trader.close > trader.short_entry
    /\ calls = <<>>
    /\ venue.LONG > 0

====
